---- MODULE Spec2Model ----
(***************************************************************************)
(* Model of the DNS rewrite storage of AdGuardHome                         *)
(* (internal/filtering/rewrite/storage.go) and of the HTTP handlers that   *)
(* front it (internal/filtering rewrites handlers).                        *)
(*                                                                         *)
(* Strings are sequences of one-character strings, so that case folding,   *)
(* IP parsing and rule formatting are computed character by character.     *)
(* Slices are (array, length) references into a heap of backing arrays, so *)
(* that aliasing between a slice and its copies is part of the model.      *)
(***************************************************************************)
EXTENDS Integers, Sequences, FiniteSets, TLC

(***************************************************************************)
(* Bounds of the model.                                                    *)
(***************************************************************************)
\* number of concurrent goroutines calling into the store
NumThreads == 3
\* longest item sequence one goroutine drives the store to
MaxItems == 3
\* longest item sequence concurrent goroutines drive the store to
MaxConcItems == 1
\* longest initial configuration list
MaxInit == 2

Threads == 1..NumThreads

(***************************************************************************)
(* Strings.                                                                *)
(***************************************************************************)
UpperToLower ==
    [c \in {"A","B","C","D","E","F","G","H","I","J","K","L","M",
            "N","O","P","Q","R","S","T","U","V","W","X","Y","Z"} |->
        CASE c = "A" -> "a" [] c = "B" -> "b" [] c = "C" -> "c" [] c = "D" -> "d"
          [] c = "E" -> "e" [] c = "F" -> "f" [] c = "G" -> "g" [] c = "H" -> "h"
          [] c = "I" -> "i" [] c = "J" -> "j" [] c = "K" -> "k" [] c = "L" -> "l"
          [] c = "M" -> "m" [] c = "N" -> "n" [] c = "O" -> "o" [] c = "P" -> "p"
          [] c = "Q" -> "q" [] c = "R" -> "r" [] c = "S" -> "s" [] c = "T" -> "t"
          [] c = "U" -> "u" [] c = "V" -> "v" [] c = "W" -> "w" [] c = "X" -> "x"
          [] c = "Y" -> "y" [] c = "Z" -> "z"]

\* strings.ToLower
LowerChar(c) == IF c \in DOMAIN UpperToLower THEN UpperToLower[c] ELSE c

RECURSIVE ToLower(_)
ToLower(s) == IF Len(s) = 0 THEN <<>> ELSE <<LowerChar(s[1])>> \o ToLower(Tail(s))

\* strings.Join
RECURSIVE Join(_, _)
Join(strs, sep) ==
    IF Len(strs) = 0 THEN <<>>
    ELSE IF Len(strs) = 1 THEN strs[1]
    ELSE strs[1] \o sep \o Join(Tail(strs), sep)

(***************************************************************************)
(* net.ParseIP and IP.To4 of the Go standard library.  An IP is a sequence *)
(* of 16 bytes; <<>> is the nil IP.                                        *)
(***************************************************************************)
Digits == {"0","1","2","3","4","5","6","7","8","9"}

DigitVal(c) ==
    CASE c = "0" -> 0 [] c = "1" -> 1 [] c = "2" -> 2 [] c = "3" -> 3 [] c = "4" -> 4
      [] c = "5" -> 5 [] c = "6" -> 6 [] c = "7" -> 7 [] c = "8" -> 8 [] c = "9" -> 9

HexVal(c) ==
    CASE c \in Digits -> DigitVal(c)
      [] c \in {"a","A"} -> 10 [] c \in {"b","B"} -> 11 [] c \in {"c","C"} -> 12
      [] c \in {"d","D"} -> 13 [] c \in {"e","E"} -> 14 [] c \in {"f","F"} -> 15
      [] OTHER -> 16

\* the index of the first occurrence of character c in s at or after i, or 0
RECURSIVE IndexFrom(_, _, _)
IndexFrom(s, c, i) ==
    IF i > Len(s) THEN 0
    ELSE IF s[i] = c THEN i
    ELSE IndexFrom(s, c, i + 1)

\* the fields of s separated by character c
RECURSIVE SplitOn(_, _)
SplitOn(s, c) ==
    LET k == IndexFrom(s, c, 1)
    IN  IF k = 0 THEN <<s>>
        ELSE <<SubSeq(s, 1, k - 1)>> \o SplitOn(SubSeq(s, k + 1, Len(s)), c)

\* the value of a run of decimal digits
RECURSIVE DecVal(_)
DecVal(s) ==
    IF Len(s) = 0 THEN 0 ELSE 10 * DecVal(SubSeq(s, 1, Len(s) - 1)) + DigitVal(s[Len(s)])

\* the value of a run of hexadecimal digits
RECURSIVE HexStrVal(_)
HexStrVal(s) ==
    IF Len(s) = 0 THEN 0 ELSE 16 * HexStrVal(SubSeq(s, 1, Len(s) - 1)) + HexVal(s[Len(s)])

\* one decimal field of a dotted quad: 1 to 3 digits, no leading zero, at most 255
IsV4Field(f) ==
    /\ Len(f) \in 1..3
    /\ \A i \in 1..Len(f) : f[i] \in Digits
    /\ (Len(f) > 1 => f[1] # "0")
    /\ DecVal(f) <= 255

\* the four bytes of a dotted quad, or <<>>
ParseV4Bytes(s) ==
    LET fs == SplitOn(s, ".")
    IN  IF Len(fs) = 4 /\ \A i \in 1..4 : IsV4Field(fs[i])
        THEN [i \in 1..4 |-> DecVal(fs[i])]
        ELSE <<>>

Zeros(n) == [i \in 1..n |-> 0]

\* net.parseIPv4: the 16-byte form carries the IPv4-in-IPv6 prefix
parseIPv4(s) ==
    LET b == ParseV4Bytes(s)
    IN  IF b = <<>> THEN <<>> ELSE Zeros(10) \o <<255, 255>> \o b

\* one hexadecimal group of an IPv6 literal: 1 to 4 hex digits
IsV6Group(g) ==
    /\ Len(g) \in 1..4
    /\ \A i \in 1..Len(g) : HexVal(g[i]) < 16

\* the bytes of a colon-separated run of groups whose last group may be a
\* dotted quad; <<-1>> when the run is malformed
RECURSIVE GroupBytes(_, _)
GroupBytes(gs, last) ==
    IF Len(gs) = 0 THEN <<>>
    ELSE LET g == gs[1]
             rest == GroupBytes(Tail(gs), last)
         IN  IF rest = <<-1>> THEN <<-1>>
             ELSE IF IsV6Group(g)
                  THEN <<HexStrVal(g) \div 256, HexStrVal(g) % 256>> \o rest
             ELSE IF Len(gs) = 1 /\ last /\ ParseV4Bytes(g) # <<>>
                  THEN ParseV4Bytes(g)
             ELSE <<-1>>

\* the index of the first "::" in s, or 0
RECURSIVE IndexEllipsis(_, _)
IndexEllipsis(s, i) ==
    IF i + 1 > Len(s) THEN 0
    ELSE IF s[i] = ":" /\ s[i + 1] = ":" THEN i
    ELSE IndexEllipsis(s, i + 1)

RunBytes(s, last) == IF Len(s) = 0 THEN <<>> ELSE GroupBytes(SplitOn(s, ":"), last)

\* net.parseIPv6 (without zone): groups of hex digits, at most one "::",
\* an optional trailing dotted quad
parseIPv6(s) ==
    LET e == IndexEllipsis(s, 1)
    IN  IF e = 0
        THEN LET b == RunBytes(s, TRUE)
             IN  IF b # <<-1>> /\ Len(b) = 16 THEN b ELSE <<>>
        ELSE LET hd == RunBytes(SubSeq(s, 1, e - 1), FALSE)
                 tl == RunBytes(SubSeq(s, e + 2, Len(s)), TRUE)
             IN  IF hd # <<-1>> /\ tl # <<-1>> /\ Len(hd) + Len(tl) < 16
                 THEN hd \o Zeros(16 - Len(hd) - Len(tl)) \o tl
                 ELSE <<>>

\* net.ParseIP: the first '.' or ':' decides the family
RECURSIVE ParseIPFrom(_, _)
ParseIPFrom(s, i) ==
    IF i > Len(s) THEN <<>>
    ELSE IF s[i] = "." THEN parseIPv4(s)
    ELSE IF s[i] = ":" THEN parseIPv6(s)
    ELSE ParseIPFrom(s, i + 1)

ParseIP(s) == ParseIPFrom(s, 1)

\* IP.To4: the last four bytes of an IPv4 or IPv4-mapped address, else <<>>
To4(ip) ==
    IF /\ Len(ip) = 16
       /\ \A i \in 1..10 : ip[i] = 0
       /\ ip[11] = 255 /\ ip[12] = 255
    THEN SubSeq(ip, 13, 16)
    ELSE <<>>


(***************************************************************************)
(* Items (type Item).  Type is the uint16 DNS record type of miekg/dns.    *)
(***************************************************************************)
TypeNone == 0
TypeA == 1
TypeCNAME == 5
TypeAAAA == 28

StrNone == <<"N", "o", "n", "e">>
StrA == <<"A">>
StrCNAME == <<"C", "N", "A", "M", "E">>
StrAAAA == <<"A", "A", "A", "A">>

\* dns.TypeToString, restricted to the types an Item can carry
TypeToString(t) ==
    CASE t = TypeNone -> StrNone
      [] t = TypeA -> StrA
      [] t = TypeCNAME -> StrCNAME
      [] t = TypeAAAA -> StrAAAA
      [] OTHER -> <<>>

\* an Item as decoded from JSON or YAML: Type and Exception are zero values
RawItem(domain, answer) ==
    [Domain |-> domain, Answer |-> answer, Type |-> TypeNone, Exception |-> FALSE]

\* Item.equal as it would be if it compared the domains only
equalDomainOnly(rw, other) == rw.Domain = other.Domain

\* Item.equal for two non-nil items
equal(rw, other) == rw.Domain = other.Domain /\ rw.Answer = other.Answer

\* Item.Normalize for a non-nil item: the item as the call leaves it
Normalize(rw) ==
    LET low == [rw EXCEPT !.Domain = ToLower(rw.Domain)]
    IN  IF rw.Answer = StrAAAA THEN [low EXCEPT !.Type = TypeAAAA, !.Exception = TRUE]
        ELSE IF rw.Answer = StrA THEN [low EXCEPT !.Type = TypeA, !.Exception = TRUE]
        ELSE LET ip == ParseIP(rw.Answer)
             IN  IF ip = <<>> THEN [low EXCEPT !.Type = TypeCNAME]
                 ELSE IF To4(ip) # <<>> THEN [low EXCEPT !.Type = TypeA]
                 ELSE [low EXCEPT !.Type = TypeAAAA]

ExcPrefix == <<"@", "@", "|", "|">>
ExcMiddle == <<"^", "$", "d", "n", "s", "t", "y", "p", "e", "=">>
ExcSuffix == <<",", "d", "n", "s", "r", "e", "w", "r", "i", "t", "e">>
RwPrefix == <<"|">>
RwMiddle == <<"^", "$", "d", "n", "s", "r", "e", "w", "r", "i", "t", "e", "=", "N", "O", "E", "R", "R", "O", "R", ";">>
Semicolon == <<";">>
Newline == <<"\n">>

\* Item.toRule as it would be if it did not look at Exception
toRuleNoException(rw) ==
    RwPrefix \o rw.Domain \o RwMiddle \o TypeToString(rw.Type) \o Semicolon \o rw.Answer

\* Item.toRule
toRule(rw) ==
    IF rw.Exception
    THEN ExcPrefix \o rw.Domain \o ExcMiddle \o TypeToString(rw.Type) \o ExcSuffix
    ELSE RwPrefix \o rw.Domain \o RwMiddle \o TypeToString(rw.Type) \o Semicolon \o rw.Answer


(***************************************************************************)
(* Inputs.                                                                 *)
(***************************************************************************)
HostA == <<"a">>
HostUpperA == <<"A">>
HostB == <<"b">>
AddrV4 == <<"1", ".", "2", ".", "3", ".", "4">>

\* the {domain, answer} pairs a request or a configuration file can carry:
\* two that differ in the case of the domain only, two that differ in the
\* answer only, two that differ in the domain only
Bodies ==
    {[Domain |-> HostA, Answer |-> StrA], [Domain |-> HostUpperA, Answer |-> StrA],
     [Domain |-> HostA, Answer |-> AddrV4], [Domain |-> HostB, Answer |-> AddrV4]}

\* the items they decode to
RawItems == {RawItem(j.Domain, j.Answer) : j \in Bodies}

\* the identifiers a store can be constructed with
ListIDs == {-1}

HostMixed == <<"B", ".", "c">>
StrLowerA == <<"a">>
AddrV4Bad == <<"1", ".", "2", ".", "3", ".", "2", "5", "6">>
AddrV6 == <<":", ":", "1">>
AddrV6Doc == <<"2", "0", "0", "1", ":", "d", "b", "8", ":", ":", "1">>
AddrV6Mapped == <<":", ":", "f", "f", "f", "f", ":", "1", ".", "2", ".", "3", ".", "4">>

\* the answers of the items a caller normalizes, by what they are
Sentinels == {StrA, StrAAAA}
IPv4Literals == {AddrV4}
IPv6Literals == {AddrV6, AddrV6Doc, AddrV6Mapped}
HostNames == {StrLowerA, HostB, AddrV4Bad}

\* the non-nil items a caller of Normalize can hold: Type and Exception are
\* exported fields, so any value may be in them before the call
ItemValues ==
    [Domain : {HostA, HostUpperA, HostMixed},
     Answer : Sentinels \cup IPv4Literals \cup IPv6Literals \cup HostNames,
     Type : {TypeNone, TypeCNAME},
     Exception : BOOLEAN]

(***************************************************************************)
(* Slices and their backing arrays.  A slice is [arr, len]; arr = 0 is a   *)
(* slice without backing array.  heap[a] holds the cells of array a, its   *)
(* length is the capacity.                                                 *)
(***************************************************************************)
ArrIds == 1..(4 + 2 * NumThreads)

NilCell == [Domain |-> <<>>, Answer |-> <<>>, Type |-> -1, Exception |-> FALSE]

\* Item.Normalize as it would be if it rejected an answer that is neither a
\* sentinel nor an IP address
NormalizeErrStrict(rw) ==
    \/ rw = NilCell
    \/ rw.Answer \notin {StrA, StrAAAA} /\ ParseIP(rw.Answer) = <<>>

\* Item.Normalize: whether the call returns an error, which it does for a
\* nil receiver
NormalizeErr(rw) == rw = NilCell

NilSlice == [arr |-> 0, len |-> 0]

Cap(h, sl) == IF sl.arr = 0 THEN 0 ELSE Len(h[sl.arr])

\* the elements of a slice, in order
SliceVal(h, sl) == IF sl.arr = 0 THEN <<>> ELSE SubSeq(h[sl.arr], 1, sl.len)

\* n cells that hold no item
RECURSIVE NilCells(_)
NilCells(n) == IF n <= 0 THEN <<>> ELSE <<NilCell>> \o NilCells(n - 1)

\* the capacity the runtime gives to n pointer-sized elements (size classes)
RoundCap(n) ==
    IF n <= 4 THEN n
    ELSE IF n <= 6 THEN 6
    ELSE IF n <= 8 THEN 8
    ELSE 2 * ((n + 1) \div 2)

\* the capacity append grows a full slice to
GrowCap(old, needed) == RoundCap(IF 2 * old >= needed THEN 2 * old ELSE needed)

\* The address of a fresh array is not observable, so the allocator is
\* modelled per owner: the configuration list lives in array 1, the store
\* allocates from {2, 3, 4}, goroutine t from {3 + 2t, 4 + 2t}.
StorePool == {2, 3, 4}
ThreadPool(t) == {3 + 2 * t, 4 + 2 * t}

\* the first array of the pool that is not in use
FreeArr(pool, used) == CHOOSE a \in pool : a \notin used /\ \A b \in pool : b < a => b \in used

\* append as it would be behind a uniqueness check: an element the slice
\* already holds is not appended again
appendUnique(h, pool, used, sl, x) ==
    IF \E i \in 1..sl.len : h[sl.arr][i] = x
    THEN [heap |-> h, slice |-> sl]
    ELSE LET a == FreeArr(pool, used \cup {sl.arr})
             cells == SliceVal(h, sl) \o <<x>>
         IN  [heap |-> [h EXCEPT ![a] = cells],
              slice |-> [arr |-> a, len |-> sl.len + 1]]

\* append(sl, x): in place when capacity allows, else into a fresh array
append(h, pool, used, sl, x) ==
    IF sl.len < Cap(h, sl)
    THEN [heap |-> [h EXCEPT ![sl.arr][sl.len + 1] = x],
          slice |-> [sl EXCEPT !.len = sl.len + 1]]
    ELSE LET a == FreeArr(pool, used \cup {sl.arr})
             c == GrowCap(Cap(h, sl), sl.len + 1)
             cells == SliceVal(h, sl) \o <<x>> \o NilCells(c - sl.len - 1)
         IN  [heap |-> [h EXCEPT ![a] = cells],
              slice |-> [arr |-> a, len |-> sl.len + 1]]

\* Clone as it would be if List returned the stored slice itself
CloneAlias(h, pool, sl) == [heap |-> h, slice |-> sl]

\* slices.Clone: append(S([]E{}), s...)
Clone(h, pool, sl) ==
    IF sl.len = 0 THEN [heap |-> h, slice |-> NilSlice]
    ELSE LET a == FreeArr(pool, {})
             c == RoundCap(sl.len)
             cells == SliceVal(h, sl) \o NilCells(c - sl.len)
         IN  [heap |-> [h EXCEPT ![a] = cells],
              slice |-> [arr |-> a, len |-> sl.len]]

\* the heap once the arrays no slice refers to are collected
Collect(h, roots) == [a \in ArrIds |-> IF a \in roots THEN h[a] ELSE <<>>]

(***************************************************************************)
(* The store (type DefaultStorage) and the matching engine.                *)
(***************************************************************************)
NilEngine == [ID |-> 0, RulesText |-> <<>>, built |-> FALSE]

NilStore == [urlFilterID |-> 0, rewrites |-> NilSlice, engine |-> NilEngine, valid |-> FALSE]

\* urlfilter.NewDNSEngine over the storage of one rule list
NewDNSEngine(id, text) == [ID |-> id, RulesText |-> text, built |-> TRUE]

\* DNSEngine.RulesCount: the non-empty lines of the rule text
RulesCount(e) ==
    LET lines == SplitOn(e.RulesText, "\n")
    IN  Cardinality({i \in 1..Len(lines) : Len(lines[i]) > 0})

\* the rule lines as they would be if resetRules compiled an item only when
\* no equal item precedes it
RECURSIVE rulesTextDistinct(_)
rulesTextDistinct(items) ==
    IF Len(items) = 0 THEN <<>>
    ELSE LET front == SubSeq(items, 1, Len(items) - 1)
             last == items[Len(items)]
         IN  IF \E i \in 1..Len(front) : equal(front[i], last)
             THEN rulesTextDistinct(front)
             ELSE rulesTextDistinct(front) \o <<toRule(last)>>

\* the rule lines resetRules compiles from a sequence of items
RECURSIVE rulesText(_)
rulesText(items) ==
    IF Len(items) = 0 THEN <<>>
    ELSE <<toRule(items[1])>> \o rulesText(Tail(items))

\* DefaultStorage.resetRules; ok says whether filterlist.NewRuleStorage
\* accepts the list.  Returns the store as the call leaves it and the error.
resetRules(h, st, ok) ==
    IF ok
    THEN [s |-> [st EXCEPT !.engine =
                    NewDNSEngine(st.urlFilterID,
                                 Join(rulesText(SliceVal(h, st.rewrites)), Newline))],
          err |-> FALSE]
    ELSE [s |-> st, err |-> TRUE]

\* NewDefaultStorage as it would be if it returned s together with the error
NewDefaultStoragePartial(h, listID, rw, ok) ==
    LET r == resetRules(h, [urlFilterID |-> listID, rewrites |-> rw,
                            engine |-> NilEngine, valid |-> TRUE], ok)
    IN  [s |-> r.s, err |-> r.err]

\* NewDefaultStorage: the store it returns (NilStore for nil) and the error
NewDefaultStorage(h, listID, rw, ok) ==
    LET r == resetRules(h, [urlFilterID |-> listID, rewrites |-> rw,
                            engine |-> NilEngine, valid |-> TRUE], ok)
    IN  IF r.err THEN [s |-> NilStore, err |-> TRUE] ELSE [s |-> r.s, err |-> FALSE]

\* Kept as it would be if the loop of Remove stopped comparing after the
\* first equal entry
RECURSIVE KeptFirst(_, _)
KeptFirst(items, item) ==
    IF Len(items) = 0 THEN <<>>
    ELSE IF items[1].Domain = item.Domain /\ items[1].Answer = item.Answer THEN Tail(items)
    ELSE <<items[1]>> \o KeptFirst(Tail(items), item)

\* the entries of a sequence that Remove keeps
RECURSIVE Kept(_, _)
Kept(items, item) ==
    IF Len(items) = 0 THEN <<>>
    ELSE IF equal(items[1], item) THEN Kept(Tail(items), item)
    ELSE <<items[1]>> \o Kept(Tail(items), item)

\* appending a run of elements one by one, as the loop of Remove does
RECURSIVE AppendAll(_, _, _, _, _)
AppendAll(h, pool, used, sl, xs) ==
    IF Len(xs) = 0 THEN [heap |-> h, slice |-> sl]
    ELSE LET r == append(h, pool, used, sl, xs[1])
         IN  AppendAll(r.heap, pool, used, r.slice, Tail(xs))



(***************************************************************************)
(* State.                                                                  *)
(***************************************************************************)
VARIABLES
    heap,       \* the backing arrays of all live slices
    dRewrites,  \* d.Rewrites, the configuration's rewrite list (a slice)
    s,          \* d.rewriteStorage, the store (NilStore while nil)
    mu,         \* s.mu: the writer holding it (or 0) and the readers holding it
    confLock,   \* d.confLock: the goroutine holding it, or 0
    pc,         \* the position of each goroutine
    via,        \* who called the store operation: "direct" or "handler"
    item,       \* the item argument of the running Add or Remove
    err,        \* the error result of the running operation
    res,        \* the slice List returned to its caller
    seen,       \* the rule count of the engine that answered MatchRequest
    status,     \* the HTTP status of the finished request, 0 while none
    notified,   \* the calls of d.Config.ConfigModified made by the request
    edits,      \* how many times the caller has edited the slice it holds
    failRun,    \* history: the rebuilds that failed since the last successful one
    pre,        \* history: the stored sequence and engine when the writer locked
    committed,  \* history: the sequence and engine of the last successful rebuild
    loadErr,    \* the error prepareRewrites returned: "none", "normalize" or "storage"
    rw,         \* the *Item a caller holds and calls Normalize and toRule on
    rwIn,       \* history: that item as it was before Normalize
    rwPc,       \* where that caller is: "new", "normalized", "failed" or "ruled"
    rule        \* the line toRule returned to that caller

\* the variables of the caller that normalizes and renders one item
itemVars == <<rw, rwIn, rwPc, rule>>

vars == <<heap, dRewrites, s, mu, confLock, pc, via, item, err, res, seen,
          status, notified, edits, failRun, pre, committed, loadErr, itemVars>>

\* longest run of consecutive failing rebuilds
MaxFailRun == 1

\* the outcomes filterlist.NewRuleStorage can have
Outcomes == IF failRun < MaxFailRun THEN BOOLEAN ELSE {TRUE}

\* longest run of edits a caller applies to a slice List returned
MaxEdits == 1

\* the items a direct caller hands to Add: already normalized, that is the
\* items of RawItems as Normalize leaves them
NormItems ==
    {[Domain |-> HostA, Answer |-> StrA, Type |-> TypeA, Exception |-> TRUE],
     [Domain |-> HostA, Answer |-> AddrV4, Type |-> TypeA, Exception |-> FALSE],
     [Domain |-> HostB, Answer |-> AddrV4, Type |-> TypeA, Exception |-> FALSE]}

\* the sequences over S of length at most n
SeqsUpTo(S, n) == UNION {[1..k -> S] : k \in 0..n}

NoPair == [items |-> <<>>, engine |-> NilEngine]

\* the stored sequence, as List would copy it
Stored == SliceVal(heap, s.rewrites)

\* the arrays that live slices refer to
Roots(st, r) == ({st.rewrites.arr, dRewrites.arr} \cup {r[t].arr : t \in Threads}) \ {0}

\* the entries a configuration file can give d.Rewrites: decoded items, and
\* nil for an empty entry
ConfigItems == RawItems \cup {NilCell}

\* the filter and its goroutines before prepareRewrites, over a configuration
StoreInit(items) ==
    /\ heap = [a \in ArrIds |-> IF a = 1 THEN items ELSE <<>>]
    /\ dRewrites = IF Len(items) = 0 THEN NilSlice ELSE [arr |-> 1, len |-> Len(items)]
    /\ s = NilStore
    /\ mu = [writer |-> 0, readers |-> {}]
    /\ confLock = 0
    /\ pc = [t \in Threads |-> "idle"]
    /\ via = [t \in Threads |-> "none"]
    /\ item = [t \in Threads |-> NilCell]
    /\ err = [t \in Threads |-> FALSE]
    /\ res = [t \in Threads |-> NilSlice]
    /\ seen = [t \in Threads |-> -1]
    /\ status = [t \in Threads |-> 0]
    /\ notified = [t \in Threads |-> 0]
    /\ edits = [t \in Threads |-> 0]
    /\ failRun = 0
    /\ pre = NoPair
    /\ committed = NoPair
    /\ loadErr = "none"

\* a caller that holds the item x and has not called Normalize yet
ItemInit(x) ==
    /\ rw = x
    /\ rwIn = x
    /\ rwPc = "new"
    /\ rule = <<>>

Init ==
    /\ \E items \in SeqsUpTo(ConfigItems, MaxInit) : StoreInit(items)
    /\ ItemInit(NilCell)

(***************************************************************************)
(* Construction.                                                           *)
(***************************************************************************)
\* the loop of prepareRewrites as it would be if it only validated the
\* entries and left them as decoded
NormalizeAllSkipped(items) == items

\* the loop of prepareRewrites: every item normalized in place
RECURSIVE NormalizeAll(_)
NormalizeAll(items) ==
    IF Len(items) = 0 THEN <<>>
    ELSE <<Normalize(items[1])>> \o NormalizeAll(Tail(items))

\* the index of the first entry Normalize fails on (a nil entry), or 0
FirstNil(items) ==
    IF \E i \in 1..Len(items) : NormalizeErr(items[i])
    THEN CHOOSE i \in 1..Len(items) :
            NormalizeErr(items[i]) /\ \A j \in 1..(i - 1) : ~NormalizeErr(items[j])
    ELSE 0

\* DNSFilter.prepareRewrites: normalizes the items of d.Rewrites in place, up
\* to the first nil entry, which ends the call with an error; without a nil
\* entry it constructs the store over that same slice
prepareRewrites ==
    /\ ~s.valid
    /\ LET k == FirstNil(heap[1])
       IN  IF k > 0
           THEN /\ heap' = [heap EXCEPT ![1] = NormalizeAll(SubSeq(heap[1], 1, k - 1))
                                                  \o SubSeq(heap[1], k, Len(heap[1]))]
                /\ loadErr' = "normalize"
                /\ UNCHANGED <<s, failRun, committed>>
           ELSE \E listID \in ListIDs, ok \in Outcomes :
                   LET h == [heap EXCEPT ![1] = NormalizeAll(heap[1])]
                       r == NewDefaultStorage(h, listID, dRewrites, ok)
                   IN  /\ heap' = h
                       /\ s' = r.s
                       /\ loadErr' = IF r.err THEN "storage" ELSE "none"
                       /\ failRun' = IF r.err THEN failRun + 1 ELSE 0
                       /\ committed' = IF r.err THEN committed
                                       ELSE [items |-> SliceVal(h, r.s.rewrites), engine |-> r.s.engine]
    /\ UNCHANGED <<itemVars, dRewrites, mu, confLock, pc, via, item, err, res, seen,
                   status, notified, edits, pre>>

(***************************************************************************)
(* sync.RWMutex                                                            *)
(***************************************************************************)
\* Lock, first half: the caller takes the writers' mutex rw.w and announces
\* itself to the readers, after which no RLock gets through
MuLock(t) ==
    /\ mu.writer = 0
    /\ mu' = [mu EXCEPT !.writer = t]

\* Lock, second half: the caller waits until the readers that were inside
\* when it announced itself have left
MuLockReady(t) ==
    /\ mu.writer = t
    /\ mu.readers = {}

\* Unlock as it would be if the error path of Add and Remove returned
\* without the deferred call
MuUnlockOnSuccess(t) ==
    /\ mu.writer = t
    /\ mu' = IF err[t] THEN mu ELSE [mu EXCEPT !.writer = 0]

MuUnlock(t) ==
    /\ mu.writer = t
    /\ mu' = [mu EXCEPT !.writer = 0]

\* RLock as it would be if it did not look for a writer
MuRLockUnchecked(t) ==
    /\ mu' = [mu EXCEPT !.readers = @ \cup {t}]

MuRLock(t) ==
    /\ mu.writer = 0
    /\ mu' = [mu EXCEPT !.readers = @ \cup {t}]

MuRUnlock(t) ==
    /\ t \in mu.readers
    /\ mu' = [mu EXCEPT !.readers = @ \ {t}]

Goto(t, p) == pc' = [pc EXCEPT ![t] = p]

\* the goroutine's call has returned to a caller that keeps nothing of it
Idle(t) ==
    /\ pc' = [pc EXCEPT ![t] = "idle"]
    /\ via' = [via EXCEPT ![t] = "none"]
    /\ item' = [item EXCEPT ![t] = NilCell]
    /\ err' = [err EXCEPT ![t] = FALSE]
    /\ seen' = [seen EXCEPT ![t] = -1]
    /\ status' = [status EXCEPT ![t] = 0]
    /\ notified' = [notified EXCEPT ![t] = 0]
    /\ edits' = [edits EXCEPT ![t] = 0]

\* Add calls that have not appended yet
PendingAdds ==
    Cardinality({t \in Threads :
                    pc[t] \in {"HAdd_confLock", "Add_Lock", "Add_Locked", "Add_append"}})

\* the stored sequence stays within n items if one more Add is called
Room(n) == Len(Stored) + PendingAdds < n


\* the item a request body {domain, answer} decodes to
rewriteItem(j) == RawItem(j.Domain, j.Answer)

\* The argument of a call is drawn at the step that first uses it: a direct
\* caller hands Add a normalized item, handleRewriteAdd hands it
\* rw.Normalize() of the decoded body.
AddArgs(t) ==
    IF via[t] = "handler" THEN {Normalize(rewriteItem(j)) : j \in Bodies} ELSE NormItems

\* a direct caller hands Remove any item, handleRewriteDelete the decoded body
RemoveArgs(t) ==
    IF via[t] = "handler" THEN {rewriteItem(j) : j \in Bodies} ELSE RawItems

(***************************************************************************)
(* DefaultStorage.Add                                                      *)
(***************************************************************************)
\* a caller of the Storage interface calls Add
CallAdd(t) ==
    /\ pc[t] = "idle" /\ s.valid
    /\ Goto(t, "Add_Lock")
    /\ via' = [via EXCEPT ![t] = "direct"]
    /\ UNCHANGED <<itemVars, loadErr, heap, dRewrites, s, mu, confLock, item, err, res, seen,
                   status, notified, edits, failRun, pre, committed>>

\* s.mu.Lock(): the writer announces itself
Add_Lock(t) ==
    /\ pc[t] = "Add_Lock"
    /\ MuLock(t)
    /\ Goto(t, "Add_Locked")
    /\ UNCHANGED <<itemVars, loadErr, heap, dRewrites, s, confLock, via, item, err, res, seen,
                   status, notified, edits, failRun, pre, committed>>

\* s.mu.Lock() returns once the readers have left
Add_Locked(t) ==
    /\ pc[t] = "Add_Locked"
    /\ MuLockReady(t)
    /\ Goto(t, "Add_append")
    /\ pre' = [items |-> Stored, engine |-> s.engine]
    /\ UNCHANGED <<itemVars, loadErr, heap, dRewrites, s, mu, confLock, via, item, err, res, seen,
                   status, notified, edits, failRun, committed>>

\* s.rewrites = append(s.rewrites, item)
Add_append(t) ==
    /\ pc[t] = "Add_append"
    /\ \E it \in AddArgs(t) :
          LET r == append(heap, StorePool, {}, s.rewrites, it)
              st == [s EXCEPT !.rewrites = r.slice]
          IN  /\ item' = [item EXCEPT ![t] = it]
              /\ s' = st
              /\ heap' = Collect(r.heap, Roots(st, res))
    /\ Goto(t, "Add_resetRules")
    /\ UNCHANGED <<itemVars, loadErr, dRewrites, mu, confLock, via, err, res, seen, status,
                   notified, edits, failRun, pre, committed>>

\* return s.resetRules()
Add_resetRules(t) ==
    /\ pc[t] = "Add_resetRules"
    /\ \E ok \in Outcomes :
          LET r == resetRules(heap, s, ok)
          IN  /\ s' = r.s
              /\ err' = [err EXCEPT ![t] = r.err]
              /\ failRun' = IF r.err THEN failRun + 1 ELSE 0
              /\ committed' = IF r.err THEN committed
                              ELSE [items |-> SliceVal(heap, r.s.rewrites), engine |-> r.s.engine]
    /\ Goto(t, "Add_Unlock")
    /\ UNCHANGED <<itemVars, loadErr, heap, dRewrites, mu, confLock, via, item, res, seen,
                   status, notified, edits, pre>>

\* defer s.mu.Unlock(), and the return to the caller
Add_Unlock(t) ==
    /\ pc[t] = "Add_Unlock"
    /\ MuUnlock(t)
    /\ pre' = NoPair
    /\ IF via[t] = "handler"
       THEN Goto(t, "HAdd_after") /\ UNCHANGED <<itemVars, loadErr, heap, dRewrites, s, confLock, via, item, err, res, seen,
                   status, notified, edits, failRun, committed>>
       ELSE Idle(t) /\ UNCHANGED <<itemVars, loadErr, heap, dRewrites, s, confLock, res, failRun, committed>>

(***************************************************************************)
(* DefaultStorage.Remove                                                   *)
(***************************************************************************)
\* a caller of the Storage interface calls Remove
CallRemove(t) ==
    /\ pc[t] = "idle" /\ s.valid
    /\ Goto(t, "Remove_Lock")
    /\ via' = [via EXCEPT ![t] = "direct"]
    /\ UNCHANGED <<itemVars, loadErr, heap, dRewrites, s, mu, confLock, item, err, res, seen,
                   status, notified, edits, failRun, pre, committed>>

\* s.mu.Lock(): the writer announces itself
Remove_Lock(t) ==
    /\ pc[t] = "Remove_Lock"
    /\ MuLock(t)
    /\ Goto(t, "Remove_Locked")
    /\ UNCHANGED <<itemVars, loadErr, heap, dRewrites, s, confLock, via, item, err, res, seen,
                   status, notified, edits, failRun, pre, committed>>

\* s.mu.Lock() returns once the readers have left
Remove_Locked(t) ==
    /\ pc[t] = "Remove_Locked"
    /\ MuLockReady(t)
    /\ Goto(t, "Remove_filter")
    /\ pre' = [items |-> Stored, engine |-> s.engine]
    /\ UNCHANGED <<itemVars, loadErr, heap, dRewrites, s, mu, confLock, via, item, err, res, seen,
                   status, notified, edits, failRun, committed>>

\* the loop that collects the entries not equal to item, and s.rewrites = arr
Remove_filter(t) ==
    /\ pc[t] = "Remove_filter"
    /\ \E it \in RemoveArgs(t) :
          LET r == AppendAll(heap, StorePool, {s.rewrites.arr}, NilSlice, Kept(Stored, it))
              st == [s EXCEPT !.rewrites = r.slice]
          IN  /\ item' = [item EXCEPT ![t] = it]
              /\ s' = st
              /\ heap' = Collect(r.heap, Roots(st, res))
    /\ Goto(t, "Remove_resetRules")
    /\ UNCHANGED <<itemVars, loadErr, dRewrites, mu, confLock, via, err, res, seen, status,
                   notified, edits, failRun, pre, committed>>

\* return s.resetRules()
Remove_resetRules(t) ==
    /\ pc[t] = "Remove_resetRules"
    /\ \E ok \in Outcomes :
          LET r == resetRules(heap, s, ok)
          IN  /\ s' = r.s
              /\ err' = [err EXCEPT ![t] = r.err]
              /\ failRun' = IF r.err THEN failRun + 1 ELSE 0
              /\ committed' = IF r.err THEN committed
                              ELSE [items |-> SliceVal(heap, r.s.rewrites), engine |-> r.s.engine]
    /\ Goto(t, "Remove_Unlock")
    /\ UNCHANGED <<itemVars, loadErr, heap, dRewrites, mu, confLock, via, item, res, seen,
                   status, notified, edits, pre>>

\* defer s.mu.Unlock(), and the return to the caller
Remove_Unlock(t) ==
    /\ pc[t] = "Remove_Unlock"
    /\ MuUnlock(t)
    /\ pre' = NoPair
    /\ IF via[t] = "handler"
       THEN Goto(t, "HDel_after") /\ UNCHANGED <<itemVars, loadErr, heap, dRewrites, s, confLock, via, item, err, res, seen,
                   status, notified, edits, failRun, committed>>
       ELSE Idle(t) /\ UNCHANGED <<itemVars, loadErr, heap, dRewrites, s, confLock, res, failRun, committed>>

(***************************************************************************)
(* DefaultStorage.List                                                     *)
(***************************************************************************)
\* a caller of the Storage interface calls List
CallList(t) ==
    /\ pc[t] = "idle" /\ s.valid
    /\ Goto(t, "List_RLock")
    /\ via' = [via EXCEPT ![t] = "direct"]
    /\ UNCHANGED <<itemVars, loadErr, heap, dRewrites, s, mu, confLock, item, err, res, seen,
                   status, notified, edits, failRun, pre, committed>>

\* s.mu.RLock()
List_RLock(t) ==
    /\ pc[t] = "List_RLock"
    /\ MuRLock(t)
    /\ Goto(t, "List_Clone")
    /\ UNCHANGED <<itemVars, loadErr, heap, dRewrites, s, confLock, via, item, err, res, seen,
                   status, notified, edits, failRun, pre, committed>>

\* return slices.Clone(s.rewrites)
List_Clone(t) ==
    /\ pc[t] = "List_Clone"
    /\ LET r == Clone(heap, ThreadPool(t), s.rewrites)
       IN  /\ res' = [res EXCEPT ![t] = r.slice]
           /\ heap' = r.heap
    /\ Goto(t, "List_RUnlock")
    /\ UNCHANGED <<itemVars, loadErr, dRewrites, s, mu, confLock, via, item, err, seen, status,
                   notified, edits, failRun, pre, committed>>

\* defer s.mu.RUnlock()
List_RUnlock(t) ==
    /\ pc[t] = "List_RUnlock"
    /\ MuRUnlock(t)
    /\ Goto(t, IF via[t] = "handler" THEN "HList_after" ELSE "List_ret")
    /\ UNCHANGED <<itemVars, loadErr, heap, dRewrites, s, confLock, via, item, err, res, seen,
                   status, notified, edits, failRun, pre, committed>>

\* defer s.mu.RUnlock(), and the return to a caller that only looks at the
\* slice and drops it
List_RUnlockDrop(t) ==
    /\ pc[t] = "List_RUnlock" /\ via[t] = "direct"
    /\ MuRUnlock(t)
    /\ Idle(t)
    /\ LET rs == [res EXCEPT ![t] = NilSlice]
       IN  /\ res' = rs
           /\ heap' = Collect(heap, Roots(s, rs))
    /\ UNCHANGED <<itemVars, loadErr, dRewrites, s, confLock, failRun, pre, committed>>

(***************************************************************************)
(* DefaultStorage.MatchRequest                                             *)
(***************************************************************************)
\* the DNS server calls MatchRequest
CallMatchRequest(t) ==
    /\ pc[t] = "idle" /\ s.valid
    /\ Goto(t, "Match_RLock")
    /\ via' = [via EXCEPT ![t] = "direct"]
    /\ UNCHANGED <<itemVars, loadErr, heap, dRewrites, s, mu, confLock, item, err, res, seen,
                   status, notified, edits, failRun, pre, committed>>

\* s.mu.RLock()
Match_RLock(t) ==
    /\ pc[t] = "Match_RLock"
    /\ MuRLock(t)
    /\ Goto(t, "Match_engine")
    /\ UNCHANGED <<itemVars, loadErr, heap, dRewrites, s, confLock, via, item, err, res, seen,
                   status, notified, edits, failRun, pre, committed>>

\* return s.engine.MatchRequest(dReq)
Match_engine(t) ==
    /\ pc[t] = "Match_engine"
    /\ seen' = [seen EXCEPT ![t] = RulesCount(s.engine)]
    /\ Goto(t, "Match_RUnlock")
    /\ UNCHANGED <<itemVars, loadErr, heap, dRewrites, s, mu, confLock, via, item, err, res,
                   status, notified, edits, failRun, pre, committed>>

\* defer s.mu.RUnlock(), and the return to the caller
Match_RUnlock(t) ==
    /\ pc[t] = "Match_RUnlock"
    /\ MuRUnlock(t)
    /\ Idle(t)
    /\ UNCHANGED <<itemVars, loadErr, heap, dRewrites, s, confLock, res, failRun, pre, committed>>

(***************************************************************************)
(* The caller of List owns the slice it received and may edit it.          *)
(***************************************************************************)
\* items[i] = x
CallerReplace(t) ==
    /\ pc[t] = "List_ret" /\ edits[t] < MaxEdits
    /\ \E i \in 1..res[t].len, x \in NormItems :
          heap' = [heap EXCEPT ![res[t].arr][i] = x]
    /\ edits' = [edits EXCEPT ![t] = @ + 1]
    /\ UNCHANGED <<itemVars, loadErr, dRewrites, s, mu, confLock, pc, via, item, err, res, seen,
                   status, notified, failRun, pre, committed>>

\* items[i], items[j] = items[j], items[i]
CallerSwap(t) ==
    /\ pc[t] = "List_ret" /\ edits[t] < MaxEdits
    /\ \E i, j \in 1..res[t].len :
          /\ i < j
          /\ heap' = [heap EXCEPT ![res[t].arr][i] = heap[res[t].arr][j],
                                  ![res[t].arr][j] = heap[res[t].arr][i]]
    /\ edits' = [edits EXCEPT ![t] = @ + 1]
    /\ UNCHANGED <<itemVars, loadErr, dRewrites, s, mu, confLock, pc, via, item, err, res, seen,
                   status, notified, failRun, pre, committed>>

\* items = append(items, x)
CallerAppend(t) ==
    /\ pc[t] = "List_ret" /\ edits[t] < MaxEdits
    /\ \E x \in NormItems :
          LET r == append(heap, ThreadPool(t), {}, res[t], x)
              rs == [res EXCEPT ![t] = r.slice]
          IN  /\ res' = rs
              /\ heap' = Collect(r.heap, Roots(s, rs))
    /\ edits' = [edits EXCEPT ![t] = @ + 1]
    /\ UNCHANGED <<itemVars, loadErr, dRewrites, s, mu, confLock, pc, via, item, err, seen,
                   status, notified, failRun, pre, committed>>

\* items = items[:len(items)-1]
CallerDrop(t) ==
    /\ pc[t] = "List_ret" /\ edits[t] < MaxEdits
    /\ res[t].len > 0
    /\ res' = [res EXCEPT ![t] = [@ EXCEPT !.len = @ - 1]]
    /\ edits' = [edits EXCEPT ![t] = @ + 1]
    /\ UNCHANGED <<itemVars, loadErr, heap, dRewrites, s, mu, confLock, pc, via, item, err, seen,
                   status, notified, failRun, pre, committed>>

\* the caller drops the slice, or the finished request is forgotten
Return(t) ==
    /\ pc[t] \in {"List_ret", "Done"}
    /\ Idle(t)
    /\ LET rs == [res EXCEPT ![t] = NilSlice]
       IN  /\ res' = rs
           /\ heap' = Collect(heap, Roots(s, rs))
    /\ UNCHANGED <<itemVars, loadErr, dRewrites, s, mu, confLock, failRun, pre, committed>>


(***************************************************************************)
(* The HTTP handlers of DNSFilter.                                         *)
(***************************************************************************)
StatusOK == 200
StatusBadRequest == 400

\* handleRewriteAdd up to d.confLock.Lock(): the body is decoded and the item
\* normalized; a body that does not decode is answered with 400
handleRewriteAdd(t) ==
    /\ pc[t] = "idle" /\ s.valid
    /\ via' = [via EXCEPT ![t] = "handler"]
    /\ \/ /\ Goto(t, "HAdd_confLock")
          /\ UNCHANGED status
       \/ /\ Goto(t, "Done")
          /\ status' = [status EXCEPT ![t] = StatusBadRequest]
    /\ UNCHANGED <<itemVars, loadErr, heap, dRewrites, s, mu, confLock, item, err, res, seen,
                   notified, edits, failRun, pre, committed>>

\* d.confLock.Lock()
HAdd_confLock(t) ==
    /\ pc[t] = "HAdd_confLock"
    /\ confLock = 0
    /\ confLock' = t
    /\ Goto(t, "Add_Lock")
    /\ UNCHANGED <<itemVars, loadErr, heap, dRewrites, s, mu, via, item, err, res, seen, status,
                   notified, edits, failRun, pre, committed>>

\* handleRewriteAdd as it would be if it called ConfigModified before
\* looking at the error of Add
HAdd_afterNotifyFirst(t) ==
    /\ pc[t] = "HAdd_after"
    /\ status' = [status EXCEPT ![t] = IF err[t] THEN StatusBadRequest ELSE StatusOK]
    /\ notified' = [notified EXCEPT ![t] = @ + 1]
    /\ confLock' = 0
    /\ Goto(t, "Done")
    /\ UNCHANGED <<itemVars, loadErr, heap, dRewrites, s, mu, via, item, err, res, seen, edits,
                   failRun, pre, committed>>

\* handleRewriteAdd after d.rewriteStorage.Add(rw) has returned
HAdd_after(t) ==
    /\ pc[t] = "HAdd_after"
    /\ IF err[t]
       THEN /\ status' = [status EXCEPT ![t] = StatusBadRequest]
            /\ UNCHANGED notified
       ELSE /\ status' = [status EXCEPT ![t] = StatusOK]
            /\ notified' = [notified EXCEPT ![t] = @ + 1]
    /\ confLock' = 0
    /\ Goto(t, "Done")
    /\ UNCHANGED <<itemVars, loadErr, heap, dRewrites, s, mu, via, item, err, res, seen, edits,
                   failRun, pre, committed>>

\* handleRewriteDelete up to d.confLock.Lock(): the body is decoded, the item
\* is not normalized; a body that does not decode is answered with 400
handleRewriteDelete(t) ==
    /\ pc[t] = "idle" /\ s.valid
    /\ via' = [via EXCEPT ![t] = "handler"]
    /\ \/ /\ Goto(t, "HDel_confLock")
          /\ UNCHANGED status
       \/ /\ Goto(t, "Done")
          /\ status' = [status EXCEPT ![t] = StatusBadRequest]
    /\ UNCHANGED <<itemVars, loadErr, heap, dRewrites, s, mu, confLock, item, err, res, seen,
                   notified, edits, failRun, pre, committed>>

\* d.confLock.Lock()
HDel_confLock(t) ==
    /\ pc[t] = "HDel_confLock"
    /\ confLock = 0
    /\ confLock' = t
    /\ Goto(t, "Remove_Lock")
    /\ UNCHANGED <<itemVars, loadErr, heap, dRewrites, s, mu, via, item, err, res, seen, status,
                   notified, edits, failRun, pre, committed>>

\* handleRewriteDelete after d.rewriteStorage.Remove(ent) has returned
HDel_after(t) ==
    /\ pc[t] = "HDel_after"
    /\ IF err[t]
       THEN /\ status' = [status EXCEPT ![t] = StatusBadRequest]
            /\ UNCHANGED notified
       ELSE /\ status' = [status EXCEPT ![t] = StatusOK]
            /\ notified' = [notified EXCEPT ![t] = @ + 1]
    /\ confLock' = 0
    /\ Goto(t, "Done")
    /\ UNCHANGED <<itemVars, loadErr, heap, dRewrites, s, mu, via, item, err, res, seen, edits,
                   failRun, pre, committed>>

\* handleRewriteList: d.confLock.Lock() and the call of List
handleRewriteList(t) ==
    /\ pc[t] = "idle" /\ s.valid
    /\ confLock = 0
    /\ confLock' = t
    /\ via' = [via EXCEPT ![t] = "handler"]
    /\ Goto(t, "List_RLock")
    /\ UNCHANGED <<itemVars, loadErr, heap, dRewrites, s, mu, item, err, res, seen, status,
                   notified, edits, failRun, pre, committed>>

\* handleRewriteList after List has returned: the entries are copied into
\* the response, d.confLock.Unlock()
HList_after(t) ==
    /\ pc[t] = "HList_after"
    /\ confLock' = 0
    /\ status' = [status EXCEPT ![t] = StatusOK]
    /\ Goto(t, "Done")
    /\ UNCHANGED <<itemVars, loadErr, heap, dRewrites, s, mu, via, item, err, res, seen,
                   notified, edits, failRun, pre, committed>>

(***************************************************************************)
(* A caller that normalizes one item and renders it.                       *)
(***************************************************************************)
\* the variables of the filter, its store and its goroutines
storeVars == <<heap, dRewrites, s, mu, confLock, pc, via, item, err, res, seen,
               status, notified, edits, failRun, pre, committed, loadErr>>

\* the items the caller can hold, nil included
ItemInputs == ItemValues \cup {NilCell}

\* err = rw.Normalize()
Item_Normalize ==
    /\ rwPc = "new"
    /\ IF NormalizeErr(rw)
       THEN /\ rwPc' = "failed"
            /\ UNCHANGED rw
       ELSE /\ rwPc' = "normalized"
            /\ rw' = Normalize(rw)
    /\ UNCHANGED <<storeVars, rwIn, rule>>

\* res = rw.toRule(), as resetRules calls it on an item of the store
Item_toRule ==
    /\ rwPc = "normalized"
    /\ rule' = toRule(rw)
    /\ rwPc' = "ruled"
    /\ UNCHANGED <<storeVars, rw, rwIn>>

(***************************************************************************)
(* The specification.                                                      *)
(***************************************************************************)
\* the initial states with an empty configuration
InitEmpty == Init /\ dRewrites = NilSlice

\* the store under concurrent callers of its interface
Next ==
    \/ prepareRewrites
    \/ \E t \in Threads :
          \/ (Room(MaxConcItems) /\ CallAdd(t)) \/ Add_Lock(t) \/ Add_Locked(t)
          \/ Add_append(t) \/ Add_resetRules(t) \/ Add_Unlock(t)
          \/ CallRemove(t) \/ Remove_Lock(t) \/ Remove_Locked(t)
          \/ Remove_filter(t) \/ Remove_resetRules(t) \/ Remove_Unlock(t)
          \/ CallList(t) \/ List_RLock(t) \/ List_Clone(t) \/ List_RUnlockDrop(t)
          \/ CallMatchRequest(t) \/ Match_RLock(t) \/ Match_engine(t) \/ Match_RUnlock(t)

Spec == InitEmpty /\ [][Next]_vars

\* the steps of goroutine t that wait for nothing
Running(t) ==
    \/ Add_append(t) \/ Add_resetRules(t) \/ Add_Unlock(t)
    \/ Remove_filter(t) \/ Remove_resetRules(t) \/ Remove_Unlock(t)
    \/ List_Clone(t) \/ List_RUnlockDrop(t)
    \/ Match_engine(t) \/ Match_RUnlock(t)

\* the step of goroutine t that waits for the readers to leave
Drain(t) == Add_Locked(t) \/ Remove_Locked(t)

\* the step of goroutine t that competes for the lock of the store
Acquire(t) == Add_Lock(t) \/ Remove_Lock(t) \/ List_RLock(t) \/ Match_RLock(t)

\* The scheduler runs every goroutine that can run.  Among the callers that
\* compete for the lock none starves: the writers' mutex rw.w hands over in
\* arrival order once a waiter has waited long, and Unlock admits the
\* readers that were blocked before it frees rw.w for the next writer.  A
\* goroutine whose Lock or RLock can succeed again and again is therefore
\* served.
Fairness ==
    \A t \in Threads :
        WF_vars(Running(t)) /\ WF_vars(Drain(t)) /\ SF_vars(Acquire(t))

SpecFair == InitEmpty /\ [][Next]_vars /\ Fairness

\* one goroutine that calls the store, keeps and edits what List returns,
\* and serves the HTTP requests
NextSeq ==
    \/ prepareRewrites
    \/ (Room(MaxItems) /\ CallAdd(1)) \/ Add_Lock(1) \/ Add_Locked(1)
    \/ Add_append(1) \/ Add_resetRules(1) \/ Add_Unlock(1)
    \/ CallRemove(1) \/ Remove_Lock(1) \/ Remove_Locked(1)
    \/ Remove_filter(1) \/ Remove_resetRules(1) \/ Remove_Unlock(1)
    \/ CallList(1) \/ List_RLock(1) \/ List_Clone(1) \/ List_RUnlock(1)
    \/ CallMatchRequest(1) \/ Match_RLock(1) \/ Match_engine(1) \/ Match_RUnlock(1)
    \/ CallerReplace(1) \/ CallerSwap(1) \/ CallerAppend(1) \/ CallerDrop(1)
    \/ Return(1)
    \/ (Room(MaxItems) /\ handleRewriteAdd(1)) \/ HAdd_confLock(1) \/ HAdd_after(1)
    \/ handleRewriteDelete(1) \/ HDel_confLock(1) \/ HDel_after(1)
    \/ handleRewriteList(1) \/ HList_after(1)

SpecSeq == InitEmpty /\ [][NextSeq]_vars

\* construction over any configuration, followed by reads
NextNew ==
    \/ prepareRewrites
    \/ CallList(1) \/ List_RLock(1) \/ List_Clone(1) \/ List_RUnlock(1)
    \/ CallMatchRequest(1) \/ Match_RLock(1) \/ Match_engine(1) \/ Match_RUnlock(1)
    \/ Return(1)

SpecNew == Init /\ [][NextNew]_vars

\* the filter loads any configuration and then serves the HTTP requests
NextLoad ==
    \/ prepareRewrites
    \/ (Room(MaxItems) /\ handleRewriteAdd(1)) \/ HAdd_confLock(1)
    \/ Add_Lock(1) \/ Add_Locked(1)
    \/ Add_append(1) \/ Add_resetRules(1) \/ Add_Unlock(1)
    \/ HAdd_after(1)
    \/ handleRewriteDelete(1) \/ HDel_confLock(1)
    \/ Remove_Lock(1) \/ Remove_Locked(1)
    \/ Remove_filter(1) \/ Remove_resetRules(1) \/ Remove_Unlock(1)
    \/ HDel_after(1)
    \/ handleRewriteList(1) \/ List_RLock(1) \/ List_Clone(1) \/ List_RUnlock(1)
    \/ HList_after(1)
    \/ Return(1)

SpecLoad == Init /\ [][NextLoad]_vars

\* a caller holding any item, beside a filter that loads any configuration
InitItem ==
    /\ \E items \in SeqsUpTo(ConfigItems, MaxInit) : StoreInit(items)
    /\ \E x \in ItemInputs : ItemInit(x)

NextItem ==
    \/ prepareRewrites
    \/ Item_Normalize
    \/ Item_toRule

SpecItem == InitItem /\ [][NextItem]_vars

(***************************************************************************)
(* Properties.                                                             *)
(***************************************************************************)
\* the positions inside the exclusive section of Add and Remove
WriterSection ==
    {"Add_append", "Add_resetRules", "Add_Unlock",
     "Remove_filter", "Remove_resetRules", "Remove_Unlock"}

\* the positions inside the shared section of List and MatchRequest
ReaderSection == {"List_Clone", "List_RUnlock", "Match_engine", "Match_RUnlock"}

\* the engine a rebuild makes of a sequence of items
EngineOf(id, items) == NewDNSEngine(id, Join(rulesText(items), Newline))

\* C1: whenever no Add or Remove holds the exclusive lock, the engine of the
\* store is the one built from exactly the stored sequence, the sequence
\* that List returns at that point.
C1_EngineBuiltFromList ==
    (s.valid /\ mu.writer = 0) => s.engine = EngineOf(s.urlFilterID, Stored)

\* C2: an Add or Remove whose rebuild failed returns with the stored
\* sequence and the engine as they were before the call.
C2_FailedCallKeepsState ==
    \A t \in Threads :
        (pc[t] \in {"Add_Unlock", "Remove_Unlock"} /\ err[t]) =>
            (Stored = pre.items /\ s.engine = pre.engine)

\* C3: what a reader observes under the read lock belongs to one commit:
\* the sequence List copies is the sequence of the last successful rebuild,
\* and the rule count MatchRequest meets is the count of that same rebuild.
C3_ReadersSeeOneCommit ==
    \A t \in Threads :
        /\ pc[t] = "List_RUnlock" => SliceVal(heap, res[t]) = committed.items
        /\ pc[t] = "Match_RUnlock" => seen[t] = RulesCount(committed.engine)

\* C4: while an Add or Remove is between its Lock and its Unlock it holds
\* the lock, and no other goroutine is inside the section of an Add, Remove,
\* List or MatchRequest.
C4_WritersExclusive ==
    \A t \in Threads :
        pc[t] \in WriterSection =>
            /\ mu.writer = t
            /\ \A u \in Threads \ {t} : pc[u] \notin WriterSection \cup ReaderSection

\* an Add is rebuilding while another goroutine that has called
\* MatchRequest is held back at RLock
C4_Witness ==
    \E t, u \in Threads :
        /\ t # u
        /\ pc[t] = "Add_resetRules"
        /\ pc[u] = "Match_RLock"

\* two items with the same domain and the same answer
SamePair(e, x) == e.Domain = x.Domain /\ e.Answer = x.Answer

\* no entry of the sequence has the domain and the answer of x
NoMatch(items, x) == \A i \in 1..Len(items) : ~SamePair(items[i], x)

\* C5: a successful Add leaves the stored sequence equal to the sequence
\* before the call followed by the item, whether or not the sequence
\* already held an equal item.
C5_AddAppends ==
    \A t \in Threads :
        (pc[t] = "Add_Unlock" /\ ~err[t]) => Stored = pre.items \o <<item[t]>>

\* a third successful Add has appended a duplicate of the second item
C5_Witness ==
    /\ pc[1] = "Add_Unlock" /\ ~err[1]
    /\ Len(Stored) = 3
    /\ Stored[1] # Stored[2]
    /\ Stored[2] = Stored[3]

\* C6: a successful Remove leaves exactly the entries that are not equal to
\* the item, in their original order: every equal entry is gone.
C6_RemoveAllEqual ==
    \A t \in Threads :
        (pc[t] = "Remove_Unlock" /\ ~err[t]) =>
            Stored = SelectSeq(pre.items, LAMBDA e : ~SamePair(e, item[t]))

\* a successful Remove has taken two equal entries out of three
C6_Witness ==
    /\ pc[1] = "Remove_Unlock" /\ ~err[1]
    /\ Len(pre.items) = 3
    /\ Len(Stored) = 1
    /\ Cardinality({i \in 1..3 : SamePair(pre.items[i], item[1])}) = 2

\* C7 as stated: a Remove whose item equals no stored entry returns success
\* and leaves the stored sequence unchanged.
C7_RemoveAbsentSucceeds ==
    \A t \in Threads :
        (pc[t] = "Remove_Unlock" /\ NoMatch(pre.items, item[t])) =>
            (~err[t] /\ Stored = pre.items)

\* C7 as amended: after any Remove no stored entry equals the item; a Remove
\* whose item equals no stored entry leaves the stored sequence unchanged,
\* and it returns an error only if its rebuild failed.
C7_RemoveAbsentKeepsList ==
    \A t \in Threads :
        pc[t] = "Remove_Unlock" =>
            /\ NoMatch(Stored, item[t])
            /\ NoMatch(pre.items, item[t]) =>
                  (Stored = pre.items /\ (err[t] => failRun > 0))

\* a Remove of an absent item has succeeded on a sequence of two items
C7_Witness ==
    /\ pc[1] = "Remove_Unlock" /\ ~err[1]
    /\ Len(pre.items) = 2
    /\ NoMatch(pre.items, item[1])
    /\ Stored = pre.items

\* C8: a remove-one request removes every stored item with the same answer
\* whose domain matches the request's domain with case folded.
C8_DeleteFoldsCase ==
    \A t \in Threads :
        (pc[t] = "Remove_Unlock" /\ via[t] = "handler") =>
            \A i \in 1..Len(Stored) :
                ~(/\ ToLower(Stored[i].Domain) = ToLower(item[t].Domain)
                  /\ Stored[i].Answer = item[t].Answer)

\* C9: List returns the stored sequence in order, and no edit the caller
\* applies to the returned slice changes the stored sequence or the engine.
C9_ListCopyIndependent ==
    /\ [](\A t \in Threads : pc[t] = "List_RUnlock" => SliceVal(heap, res[t]) = Stored)
    /\ [][\A t \in Threads :
             (pc[t] = "List_ret" /\ edits'[t] > edits[t]) =>
                 (Stored' = Stored /\ s' = s)]_vars

\* the caller has edited its copy of a sequence of two items, which now
\* differs from the stored sequence
C9_Witness ==
    /\ pc[1] = "List_ret" /\ edits[1] = 1
    /\ Len(Stored) = 2
    /\ SliceVal(heap, res[1]) # Stored

\* C10: construction either yields a store whose sequence is the given list,
\* in order, with the engine built from it, or yields no store.
C10_NewAllOrNothing ==
    IF s.valid
    THEN /\ Stored = SliceVal(heap, dRewrites)
         /\ s.engine = EngineOf(s.urlFilterID, SliceVal(heap, dRewrites))
         /\ s.urlFilterID \in ListIDs
    ELSE s = NilStore

\* a store constructed over two different items, read back by List
C10_Witness ==
    /\ s.valid
    /\ Len(Stored) = 2 /\ Stored[1] # Stored[2]
    /\ pc[1] = "List_RUnlock"
    /\ SliceVal(heap, res[1]) = Stored

\* no character of the string is an upper-case letter
IsLower(str) == \A i \in 1..Len(str) : str[i] \notin DOMAIN UpperToLower

\* the record kind the classification gives an answer: the sentinels first,
\* then the IP literals, CNAME for any other string
KindOf(answer) ==
    IF answer = StrAAAA THEN TypeAAAA
    ELSE IF answer = StrA THEN TypeA
    ELSE IF answer \in IPv4Literals THEN TypeA
    ELSE IF answer \in IPv6Literals THEN TypeAAAA
    ELSE TypeCNAME

\* C11: after Normalize of a non-nil item the domain is lower-case and the
\* record kind is decided by the answer alone: "AAAA" gives AAAA, "A" gives A,
\* an IPv4 literal gives A, an IPv6 literal gives AAAA, anything else CNAME.
C11_KindByAnswer ==
    rwPc = "normalized" =>
        /\ IsLower(rw.Domain)
        /\ rw.Answer = rwIn.Answer
        /\ rw.Type = KindOf(rwIn.Answer)

\* C12: after Normalize of a non-nil item the exception flag is true exactly
\* when the answer is the sentinel "A" or "AAAA", whatever the flag was
\* before the call.
C12_ExceptionDerived ==
    rwPc = "normalized" => (rw.Exception <=> rwIn.Answer \in Sentinels)

\* some entry of the sequence is nil
HasNil(items) == \E i \in 1..Len(items) : items[i] = NilCell

\* C13: Normalize returns an error exactly when its receiver is nil, also
\* inside the loop of prepareRewrites, and a call that returns the error
\* leaves the store and the stored sequence as they were.
C13_NormalizeFailsIffNil ==
    /\ [](rwPc # "new" => (rwPc = "failed" <=> rwIn = NilCell))
    /\ [](loadErr = "normalize" => (HasNil(SliceVal(heap, dRewrites)) /\ s = NilStore))
    /\ [](HasNil(SliceVal(heap, dRewrites)) => (~s.valid /\ loadErr # "storage"))
    /\ [][rwPc' = "failed" /\ rwPc = "new" => (s' = s /\ Stored' = Stored)]_vars
    /\ [][loadErr' = "normalize" => s' = s]_vars

\* Normalize has failed on a nil item beside a store that holds two items
C13_Witness ==
    /\ rwPc = "failed" /\ rwIn = NilCell
    /\ s.valid /\ Len(Stored) = 2

\* the name of a record kind in a rule line
KindName(k) ==
    IF k = TypeA THEN <<"A">>
    ELSE IF k = TypeAAAA THEN <<"A", "A", "A", "A">>
    ELSE <<"C", "N", "A", "M", "E">>

\* C14: toRule of a normalized item returns one line; with the exception
\* flag set it is @@||<domain>^$dnstype=<KIND>,dnsrewrite, which has no
\* field for the answer, and otherwise it is
\* |<domain>^$dnsrewrite=NOERROR;<KIND>;<answer>, <KIND> being the derived
\* record kind A, AAAA or CNAME.
C14_RuleLine ==
    rwPc = "ruled" =>
        /\ rw.Type \in {TypeA, TypeAAAA, TypeCNAME}
        /\ \A i \in 1..Len(rule) : rule[i] # "\n"
        /\ IF rw.Exception
           THEN rule = <<"@", "@", "|", "|">> \o rw.Domain
                       \o <<"^", "$", "d", "n", "s", "t", "y", "p", "e", "=">>
                       \o KindName(rw.Type)
                       \o <<",", "d", "n", "s", "r", "e", "w", "r", "i", "t", "e">>
           ELSE rule = <<"|">> \o rw.Domain
                       \o <<"^", "$", "d", "n", "s", "r", "e", "w", "r", "i", "t", "e", "=">>
                       \o <<"N", "O", "E", "R", "R", "O", "R", ";">>
                       \o KindName(rw.Type) \o <<";">> \o rw.Answer

\* toRule has rendered the exception item of a mixed-case domain with the
\* answer "AAAA"
C14_Witness ==
    /\ rwPc = "ruled"
    /\ rwIn.Domain = HostMixed /\ rwIn.Answer = StrAAAA
    /\ rw.Exception
    /\ Len(rule) = 32

\* the add-one or remove-one request of goroutine t has called Add or Remove
\* and the call returned without error
Mutated(t) == item[t] # NilCell /\ ~err[t]

\* C15: a finished add-one or remove-one request has called ConfigModified
\* exactly once if its Add or Remove succeeded, and not at all if it failed
\* at decoding or in the store; no request calls it before its Add or Remove
\* has returned, and list-all never calls it.
C15_NotifyOnSuccess ==
    \A t \in Threads :
        /\ pc[t] # "Done" => notified[t] = 0
        /\ pc[t] = "Done" =>
              /\ notified[t] = (IF Mutated(t) THEN 1 ELSE 0)
              /\ Mutated(t) => status[t] = StatusOK
              /\ (item[t] # NilCell /\ err[t]) => status[t] = StatusBadRequest

\* an add-one request has failed in the store on a sequence that already
\* held an item, and has not called ConfigModified
C15_Witness ==
    /\ pc[1] = "Done" /\ via[1] = "handler"
    /\ item[1] \in NormItems /\ err[1]
    /\ status[1] = StatusBadRequest /\ notified[1] = 0
    /\ Len(Stored) = 2

\* the lines of a rule text
RuleLines(text) == IF text = <<>> THEN <<>> ELSE SplitOn(text, "\n")

\* the engine holds one rule list, tagged id, whose lines are the toRule
\* lines of the items, one per item and in their order
CompiledFrom(e, id, items) ==
    /\ e.built
    /\ e.ID = id
    /\ Len(RuleLines(e.RulesText)) = Len(items)
    /\ \A i \in 1..Len(items) : RuleLines(e.RulesText)[i] = toRule(items[i])

\* C16: every successful rebuild, in NewDefaultStorage, Add and Remove,
\* hands the engine one rule list made of one toRule line per item of the
\* whole current sequence, in order and with duplicates, tagged with the
\* identifier given at construction, which never changes afterwards.
C16_RebuildCompilesAll ==
    /\ [](committed # NoPair =>
            CompiledFrom(committed.engine, s.urlFilterID, committed.items))
    /\ [](\A t \in Threads :
            (pc[t] \in {"Add_Unlock", "Remove_Unlock"} /\ ~err[t]) =>
                CompiledFrom(s.engine, s.urlFilterID, Stored))
    /\ [](s.valid => s.urlFilterID \in ListIDs)
    /\ [][~s.valid /\ s'.valid => CompiledFrom(s'.engine, s'.urlFilterID, Stored')]_vars
    /\ [][s.valid => s'.urlFilterID = s.urlFilterID]_vars

\* a remove-one request has left two equal items of a loaded configuration,
\* and the rebuild has compiled two rules
C16_Witness ==
    /\ pc[1] = "Remove_Unlock" /\ ~err[1]
    /\ Len(pre.items) = 3
    /\ Len(Stored) = 2 /\ Stored[1] = Stored[2]
    /\ Stored = SliceVal(heap, dRewrites)
    /\ RulesCount(s.engine) = 2

\* the configuration list, as the persistence hook would read it
Configured == SliceVal(heap, dRewrites)

\* C17: every item of the store, whether loaded by prepareRewrites or added
\* by an add-one request, has a lower-case domain and the record kind and
\* exception flag that Normalize derives from its domain and answer.
C17_StoredNormalized ==
    \A i \in 1..Len(Stored) :
        /\ Stored[i] # NilCell
        /\ IsLower(Stored[i].Domain)
        /\ Stored[i].Type = Normalize(RawItem(Stored[i].Domain, Stored[i].Answer)).Type
        /\ Stored[i].Exception = (Stored[i].Answer \in Sentinels)
        /\ Stored[i].Type \in {TypeA, TypeAAAA, TypeCNAME}

\* two items loaded from the configuration and a third added by a request
\* are stored, after a remove-one request has been served
C17_Witness ==
    /\ s.valid /\ Len(Stored) = 3
    /\ SubSeq(Stored, 1, 2) = Configured
    /\ Stored[1] # Stored[2]
    /\ pc[1] = "Done" /\ status[1] = StatusOK /\ item[1] \in RawItems

\* C19: a successful add-one or remove-one request that starts with the
\* configuration list equal to the stored sequence ends with the two equal:
\* same items, same order.
C19_ConfigFollowsStore ==
    \A t \in Threads :
        (/\ pc[t] \in {"Add_Unlock", "Remove_Unlock"}
         /\ via[t] = "handler" /\ ~err[t]
         /\ pre.items = Configured) => Stored = Configured

\* goroutine t is inside a call of Add, Remove, List or MatchRequest
InCall(t) == pc[t] # "idle"

\* some goroutine inside a call can take its next step
SomeStep == \E t \in Threads : Running(t) \/ Drain(t) \/ Acquire(t)

\* C18: the lock is held only by goroutines inside their sections, so every
\* return path, with or without a rebuild error, has released it; a new
\* store starts with its lock free; whenever a call is under way some
\* goroutine can step; and under fair scheduling every call returns.
C18_CallsComplete ==
    /\ [](\A t \in Threads :
            /\ mu.writer = t => pc[t] \in WriterSection \cup {"Add_Locked", "Remove_Locked"}
            /\ t \in mu.readers => pc[t] \in ReaderSection)
    /\ []((\A t \in Threads : ~InCall(t)) => mu = [writer |-> 0, readers |-> {}])
    /\ []((\E t \in Threads : InCall(t)) => ENABLED SomeStep)
    /\ \A t \in Threads : InCall(t) ~> ~InCall(t)

\* an Add whose rebuild failed is about to release the lock, while another
\* goroutine waits at RLock for it
C18_Witness ==
    \E t, u \in Threads :
        /\ t # u
        /\ pc[t] = "Add_Unlock" /\ err[t] /\ mu.writer = t
        /\ pc[u] = "List_RLock"

====
